---- MODULE Spec2Model ----
(***************************************************************************)
(* Model of TwoBtnMidiController.ino: a two button MIDI Program Change     *)
(* controller.  The sketch polls two OneButton objects and one Fsm in      *)
(* loop(); button callbacks edit the globals, fire Fsm triggers, send MIDI *)
(* and write the EEPROM.  A callback, with every call it makes, is one     *)
(* step of the model.                                                      *)
(***************************************************************************)
EXTENDS Integers, Sequences, FiniteSets, TLC

(***************************************************************************)
(* Bounds of the model.                                                    *)
(***************************************************************************)
\* number of click events delivered by the buttons in one behaviour
MaxClicks == 2

(***************************************************************************)
(* Program constants.                                                      *)
(***************************************************************************)
TO_RUN == 1
TO_SETUP_MODE == 2
TO_SETUP_MIDI == 3
TO_SETUP_MODE1 == 4
TO_SETUP_MODE1_LOW == 4
TO_SETUP_MODE1_HI == 5
TO_SETUP_MODE2 == 6
TO_SETUP_MODE2_BTN1 == 7
TO_SETUP_MODE2_BTN2 == 8
TO_SETUP_MODE3 == 9
TO_SETUP_MODE3_BTN1_PC1 == 10
TO_SETUP_MODE3_BTN1_PC2 == 11
TO_SETUP_MODE3_BTN2_PC1 == 12
TO_SETUP_MODE3_BTN2_PC2 == 13
TO_SETUP_EXIT == 14
TO_SETUP_MODE_START == 15

RUN_MODE1 == 1
RUN_MODE2 == 2
RUN_MODE3 == 3

CONFIG_VERSION == 1

\* the State objects of the sketch, named as the navigation states
state_init == "Init"
state_run == "Run"
state_setup_mode == "SetupModeSelect"
state_setup_midi == "SetupMidi"
state_setup_mode1 == "SetupMode1"
state_setup_mode1_low == "SetupMode1Low"
state_setup_mode1_hi == "SetupMode1High"
state_setup_mode2 == "SetupMode2"
state_setup_mode2_btn1 == "SetupMode2Btn1"
state_setup_mode2_btn2 == "SetupMode2Btn2"
state_setup_mode3 == "SetupMode3"
state_setup_mode3_btn1PC1 == "SetupMode3Btn1PC1"
state_setup_mode3_btn1PC2 == "SetupMode3Btn1PC2"
state_setup_mode3_btn2PC1 == "SetupMode3Btn2PC1"
state_setup_mode3_btn2PC2 == "SetupMode3Btn2PC2"
state_setup_exit == "SetupExit"

\* a byte holds a value modulo 256
Byte(n) == n % 256

(***************************************************************************)
(* settingsStruct and the contents the EEPROM may hold at power-up.        *)
(***************************************************************************)
SettingsFields ==
  {"sversion", "midiChannel", "mode1_lowlimitPC", "mode1_highlimitPC",
   "mode2_btn1PC", "mode2_btn2PC",
   "mode3_btn1PC1", "mode3_btn1PC2", "mode3_btn2PC1", "mode3_btn2PC2"}

settingsStruct(v, ch, lo, hi, b1, b2, p11, p12, p21, p22) ==
  [sversion |-> v, midiChannel |-> ch,
   mode1_lowlimitPC |-> lo, mode1_highlimitPC |-> hi,
   mode2_btn1PC |-> b1, mode2_btn2PC |-> b2,
   mode3_btn1PC1 |-> p11, mode3_btn1PC2 |-> p12,
   mode3_btn2PC1 |-> p21, mode3_btn2PC2 |-> p22]

\* a blank EEPROM (every byte 0xFF), and a record written by an earlier save
\* of this sketch, with every field in range and at the ends of the ranges
StoredRecords ==
  { settingsStruct(255, 255, 255, 255, 255, 255, 255, 255, 255, 255),
    settingsStruct(CONFIG_VERSION, 16, 0, 127, 127, 0, 30, 31, 40, 40) }

(***************************************************************************)
(* The state of the program.                                               *)
(***************************************************************************)
VARIABLES
  EEPROM,                \* the settings block at CONFIG_START_ADDRESS
  _settings,             \* the in-memory settingsStruct
  mode1_currentPC,       \* int
  mode3_current_btn1PC,  \* int
  mode3_current_btn2PC,  \* int
  btn1_state,            \* gesture latch of button 1
  btn2_state,            \* gesture latch of button 2
  run_mode,
  btn1, btn2,            \* the OneButton objects: attached callbacks, and
                         \* whether the button is inside a long press
  main_fsm,              \* the Fsm object: current state, initialized flag,
                         \* whether the timed transition's start is set
  out,                   \* the last step: the button (0 if none) and the
                         \* event it delivered, the navigation state and
                         \* the latches before it, the MIDI messages sent,
                         \* the number of EEPROM.put calls
  clicks,                \* click events delivered so far
  session,               \* bookkeeping of the setup session: the settings
                         \* as last loaded or saved, the fields edited since
                         \* setup was entered
  scenario               \* progress along the long-press walk
                         \* Run, SetupModeSelect, SetupMidi, SetupExit, Run

vars == << EEPROM, _settings, mode1_currentPC, mode3_current_btn1PC,
           mode3_current_btn2PC, btn1_state, btn2_state, run_mode, btn1, btn2,
           main_fsm, out, clicks, session, scenario >>

\* the program state as one value, so that a callback and the calls it makes
\* compose in the order of the code
Machine ==
  [EEPROM |-> EEPROM, _settings |-> _settings,
   mode1_currentPC |-> mode1_currentPC,
   mode3_current_btn1PC |-> mode3_current_btn1PC,
   mode3_current_btn2PC |-> mode3_current_btn2PC,
   btn1_state |-> btn1_state, btn2_state |-> btn2_state,
   run_mode |-> run_mode, btn1 |-> btn1, btn2 |-> btn2,
   main_fsm |-> main_fsm,
   midi |-> << >>, puts |-> 0, ntrans |-> 0]

NoOutput == [who |-> 0, ev |-> "setup", nav |-> state_init, l1 |-> 0, l2 |-> 0,
             midi |-> << >>, puts |-> 0]

(***************************************************************************)
(* The libraries, as the sketch uses them.                                 *)
(***************************************************************************)
\* OneButton::attachClick / attachLongPressStart / attachLongPressStop
attachClick(s, b, f) ==
  IF b = 1 THEN [s EXCEPT !.btn1.click = f] ELSE [s EXCEPT !.btn2.click = f]

attachLongPressStart(s, b, f) ==
  IF b = 1 THEN [s EXCEPT !.btn1.longPressStart = f]
           ELSE [s EXCEPT !.btn2.longPressStart = f]

attachLongPressStop(s, b, f) ==
  IF b = 1 THEN [s EXCEPT !.btn1.longPressStop = f]
           ELSE [s EXCEPT !.btn2.longPressStop = f]

\* MIDI.sendProgramChange(DataByte inProgramNumber, Channel inChannel): the
\* message is recorded with the arguments the call receives, each converted
\* to its parameter type, a byte
sendProgramChange(s, program, channel) ==
  [s EXCEPT !.midi = Append(@, << Byte(program), Byte(channel) >>)]

(***************************************************************************)
(* The on_enter functions of the states.  updateDisplay only writes the    *)
(* display and changes nothing of the state modelled here.                 *)
(***************************************************************************)
\* on_init_enter with a slip: the long-press-start handlers are attached
on_init_enter_Attaches(s) ==
  attachLongPressStart(attachLongPressStart(s, 1, "longPressStart1"),
                       2, "longPressStart2")

on_init_enter(s) == s

\* on_run_enter with a slip: the mode-1 position is seeded again
on_run_enter_Reseeds(s) ==
  LET s1 == IF s.run_mode = RUN_MODE1
              THEN attachClick(attachClick(s, 1, "cyclePcDown"), 2, "cyclePcUp")
            ELSE IF s.run_mode = RUN_MODE2
              THEN attachClick(attachClick(s, 1, "sendBtn1PC"), 2, "sendBtn2PC")
            ELSE IF s.run_mode = RUN_MODE3
              THEN attachClick(attachClick(s, 1, "sendBtn1TogglePC"),
                               2, "sendBtn2TogglePC")
            ELSE s
      s2 == attachLongPressStart(s1, 1, "longPressStart1")
      s3 == attachLongPressStart(s2, 2, "longPressStart2")
      s4 == attachLongPressStop(s3, 1, "longPressFromRun")
      s5 == attachLongPressStop(s4, 2, "longPressFromRun")
  IN  [s5 EXCEPT !.mode1_currentPC = s._settings.mode1_lowlimitPC]

on_run_enter(s) ==
  LET s1 == IF s.run_mode = RUN_MODE1
              THEN attachClick(attachClick(s, 1, "cyclePcDown"), 2, "cyclePcUp")
            ELSE IF s.run_mode = RUN_MODE2
              THEN attachClick(attachClick(s, 1, "sendBtn1PC"), 2, "sendBtn2PC")
            ELSE IF s.run_mode = RUN_MODE3
              THEN attachClick(attachClick(s, 1, "sendBtn1TogglePC"),
                               2, "sendBtn2TogglePC")
            ELSE s
      s2 == attachLongPressStart(s1, 1, "longPressStart1")
      s3 == attachLongPressStart(s2, 2, "longPressStart2")
      s4 == attachLongPressStop(s3, 1, "longPressFromRun")
  IN  attachLongPressStop(s4, 2, "longPressFromRun")

\* on_setup_mode_enter with a slip: the click handlers are not rebound
on_setup_mode_enter_KeepsClicks(s) ==
  LET s3 == attachLongPressStop(s, 1, "longPressFromSetupMode")
  IN  attachLongPressStop(s3, 2, "longPressFromSetupMode")

on_setup_mode_enter(s) ==
  LET s1 == attachClick(s, 1, "modeDown")
      s2 == attachClick(s1, 2, "modeUp")
      s3 == attachLongPressStop(s2, 1, "longPressFromSetupMode")
  IN  attachLongPressStop(s3, 2, "longPressFromSetupMode")

on_setup_midi_enter(s) ==
  LET s1 == attachClick(s, 1, "midiChnDown")
      s2 == attachClick(s1, 2, "midiChnUp")
      s3 == attachLongPressStop(s2, 1, "longPressFromSetupMidi")
  IN  attachLongPressStop(s3, 2, "longPressFromSetupMidi")

on_setup_mode1_enter(s) ==
  LET s1 == attachClick(s, 1, "nullClick")
      s2 == attachClick(s1, 2, "nullClick")
      s3 == attachLongPressStop(s2, 1, "longPressFromSetupMode1")
  IN  attachLongPressStop(s3, 2, "longPressFromSetupMode1")

on_setup_mode1_low_enter(s) ==
  LET s1 == attachClick(s, 1, "mode1LowLimitDecrease")
      s2 == attachClick(s1, 2, "mode1LowLimitIncrease")
      s3 == attachLongPressStop(s2, 1, "longPressFromSetupMode1Low")
  IN  attachLongPressStop(s3, 2, "longPressFromSetupMode1Low")

\* attaches the long-press-stop callback of button 1 only
on_setup_mode1_hi_enter(s) ==
  LET s1 == attachClick(s, 1, "mode1HiLimitDecrease")
      s2 == attachClick(s1, 2, "mode1HiLimitIncrease")
  IN  attachLongPressStop(s2, 1, "longPressFromSetupMode1Hi")

on_setup_mode2_enter(s) ==
  LET s1 == attachClick(s, 1, "nullClick")
      s2 == attachClick(s1, 2, "nullClick")
      s3 == attachLongPressStop(s2, 1, "longPressFromSetupMode2")
  IN  attachLongPressStop(s3, 2, "longPressFromSetupMode2")

on_setup_mode2_btn1_enter(s) ==
  LET s1 == attachClick(s, 1, "mode2Btn1Decrease")
      s2 == attachClick(s1, 2, "mode2Btn1Increase")
      s3 == attachLongPressStop(s2, 1, "longPressFromSetupMode2Btn1")
  IN  attachLongPressStop(s3, 2, "longPressFromSetupMode2Btn1")

on_setup_mode2_btn2_enter(s) ==
  LET s1 == attachClick(s, 1, "mode2Btn2Decrease")
      s2 == attachClick(s1, 2, "mode2Btn2Increase")
      s3 == attachLongPressStop(s2, 1, "longPressFromSetupMode2Btn2")
  IN  attachLongPressStop(s3, 2, "longPressFromSetupMode2Btn2")

\* attaches no click callback
on_setup_mode3_enter(s) ==
  LET s1 == attachLongPressStop(s, 1, "longPressFromSetupMode3")
  IN  attachLongPressStop(s1, 2, "longPressFromSetupMode3")

on_setup_mode3_btn1PC1_enter(s) == s

on_setup_mode3_btn1PC2_enter(s) == s

on_setup_mode3_btn2PC1_enter(s) == s

on_setup_mode3_btn2PC2_enter(s) == s

\* attaches no click callback
on_setup_exit_enter(s) ==
  LET s1 == attachLongPressStop(s, 1, "longPressToRun")
  IN  attachLongPressStop(s1, 2, "longPressToRun")

\* delay(2000): blocks, changes nothing
on_setup_exit_exit(s) == s

\* State::on_enter and State::on_exit of each State object
on_enter(st, s) ==
  CASE st = state_init -> on_init_enter(s)
    [] st = state_run -> on_run_enter(s)
    [] st = state_setup_mode -> on_setup_mode_enter(s)
    [] st = state_setup_midi -> on_setup_midi_enter(s)
    [] st = state_setup_mode1 -> on_setup_mode1_enter(s)
    [] st = state_setup_mode1_low -> on_setup_mode1_low_enter(s)
    [] st = state_setup_mode1_hi -> on_setup_mode1_hi_enter(s)
    [] st = state_setup_mode2 -> on_setup_mode2_enter(s)
    [] st = state_setup_mode2_btn1 -> on_setup_mode2_btn1_enter(s)
    [] st = state_setup_mode2_btn2 -> on_setup_mode2_btn2_enter(s)
    [] st = state_setup_mode3 -> on_setup_mode3_enter(s)
    [] st = state_setup_mode3_btn1PC1 -> on_setup_mode3_btn1PC1_enter(s)
    [] st = state_setup_mode3_btn1PC2 -> on_setup_mode3_btn1PC2_enter(s)
    [] st = state_setup_mode3_btn2PC1 -> on_setup_mode3_btn2PC1_enter(s)
    [] st = state_setup_mode3_btn2PC2 -> on_setup_mode3_btn2PC2_enter(s)
    [] st = state_setup_exit -> on_setup_exit_enter(s)

on_exit(st, s) ==
  IF st = state_setup_exit THEN on_setup_exit_exit(s) ELSE s

(***************************************************************************)
(* The Fsm: the transition table built in setup(), trigger() and           *)
(* make_transition().                                                      *)
(***************************************************************************)
\* main_fsm.add_transition(from, to, event, NULL), in the order of setup()
Transitions ==
  << << state_run, state_setup_mode, TO_SETUP_MODE >>,
     << state_setup_mode, state_setup_midi, TO_SETUP_MIDI >>,
     << state_setup_mode, state_setup_exit, TO_SETUP_EXIT >>,
     << state_setup_midi, state_setup_mode1, TO_SETUP_MODE1 >>,
     << state_setup_midi, state_setup_exit, TO_SETUP_EXIT >>,
     << state_setup_mode1, state_setup_mode2, TO_SETUP_MODE2 >>,
     << state_setup_mode1, state_setup_mode1_low, TO_SETUP_MODE1_LOW >>,
     << state_setup_mode1_low, state_setup_mode1_hi, TO_SETUP_MODE1_HI >>,
     << state_setup_mode1_low, state_setup_exit, TO_SETUP_EXIT >>,
     << state_setup_mode1_hi, state_setup_mode2, TO_SETUP_MODE2 >>,
     << state_setup_mode1_hi, state_setup_exit, TO_SETUP_EXIT >>,
     << state_setup_mode1, state_setup_exit, TO_SETUP_EXIT >>,
     << state_setup_mode2, state_setup_mode3, TO_SETUP_MODE3 >>,
     << state_setup_mode2, state_setup_mode2_btn1, TO_SETUP_MODE2_BTN1 >>,
     << state_setup_mode2_btn1, state_setup_mode2_btn2, TO_SETUP_MODE2_BTN2 >>,
     << state_setup_mode2_btn1, state_setup_exit, TO_SETUP_EXIT >>,
     << state_setup_mode2_btn2, state_setup_mode3, TO_SETUP_MODE3 >>,
     << state_setup_mode2_btn2, state_setup_exit, TO_SETUP_EXIT >>,
     << state_setup_mode3, state_setup_exit, TO_SETUP_EXIT >>,
     << state_setup_mode3, state_setup_mode, TO_SETUP_MODE_START >>,
     << state_setup_mode3, state_setup_mode3_btn1PC1, TO_SETUP_MODE3_BTN1_PC1 >>,
     << state_setup_mode3_btn1PC1, state_setup_mode3_btn1PC2,
        TO_SETUP_MODE3_BTN1_PC2 >>,
     << state_setup_mode3_btn1PC2, state_setup_mode3_btn2PC1,
        TO_SETUP_MODE3_BTN2_PC1 >>,
     << state_setup_mode3_btn2PC1, state_setup_mode3_btn2PC2,
        TO_SETUP_MODE3_BTN2_PC2 >>,
     << state_setup_mode3_btn2PC2, state_setup_exit, TO_SETUP_EXIT >>,
     << state_setup_exit, state_run, TO_RUN >> >>

\* Fsm::make_transition: on_exit of the source, on_enter of the target, then
\* the target becomes the current state; a timed transition's start is reset
make_transition(s, from, to) ==
  LET s1 == on_exit(from, s)
      s2 == on_enter(to, s1)
  IN  [s2 EXCEPT !.main_fsm.m_current_state = to,
                 !.main_fsm.timed_start = FALSE,
                 !.ntrans = @ + 1]

\* Fsm::trigger: the first transition registered for the current state and
\* the event, if the machine has run once
trigger(s, event) ==
  LET hits == {i \in DOMAIN Transitions :
                 /\ Transitions[i][1] = s.main_fsm.m_current_state
                 /\ Transitions[i][3] = event}
      first == CHOOSE i \in hits : \A j \in hits : i <= j
  IN  IF s.main_fsm.m_initialized /\ hits # {}
        THEN make_transition(s, Transitions[first][1], Transitions[first][2])
        ELSE s

(***************************************************************************)
(* The button callbacks.                                                   *)
(***************************************************************************)
\* run mode 1
cyclePcDown(s) ==
  LET s1 == IF s.mode1_currentPC = s._settings.mode1_lowlimitPC
              THEN [s EXCEPT !.mode1_currentPC = s._settings.mode1_highlimitPC]
              ELSE [s EXCEPT !.mode1_currentPC = @ - 1]
  IN  sendProgramChange(s1, s1.mode1_currentPC, s1._settings.midiChannel)

\* cyclePcUp with a slip: no wrap at the high limit
cyclePcUp_NoWrap(s) ==
  LET s1 == [s EXCEPT !.mode1_currentPC = @ + 1]
  IN  sendProgramChange(s1, s1.mode1_currentPC, s1._settings.midiChannel)

cyclePcUp(s) ==
  LET s1 == IF s.mode1_currentPC = s._settings.mode1_highlimitPC
              THEN [s EXCEPT !.mode1_currentPC = s._settings.mode1_lowlimitPC]
              ELSE [s EXCEPT !.mode1_currentPC = @ + 1]
  IN  sendProgramChange(s1, s1.mode1_currentPC, s1._settings.midiChannel)

\* run mode 2
sendBtn1PC(s) ==
  sendProgramChange(s, s._settings.mode2_btn1PC, s._settings.midiChannel)

\* sendBtn2PC with a slip: the program of button 1 is sent
sendBtn2PC_SendsBtn1(s) ==
  sendProgramChange(s, s._settings.mode2_btn1PC, s._settings.midiChannel)

sendBtn2PC(s) ==
  sendProgramChange(s, s._settings.mode2_btn2PC, s._settings.midiChannel)

\* run mode 3
sendBtn1TogglePC(s) ==
  LET s1 == IF s.mode3_current_btn1PC = s._settings.mode3_btn1PC1
              THEN [s EXCEPT !.mode3_current_btn1PC = s._settings.mode3_btn1PC2]
              ELSE [s EXCEPT !.mode3_current_btn1PC = s._settings.mode3_btn1PC1]
  IN  sendProgramChange(s1, s1.mode3_current_btn1PC, s1._settings.midiChannel)

\* sendBtn2TogglePC with a slip: the second program is never left
sendBtn2TogglePC_Sticks(s) ==
  LET s1 == IF s.mode3_current_btn2PC = s._settings.mode3_btn2PC1
              THEN [s EXCEPT !.mode3_current_btn2PC = s._settings.mode3_btn2PC2]
              ELSE s
  IN  sendProgramChange(s1, s1.mode3_current_btn2PC, s1._settings.midiChannel)

sendBtn2TogglePC(s) ==
  LET s1 == IF s.mode3_current_btn2PC = s._settings.mode3_btn2PC1
              THEN [s EXCEPT !.mode3_current_btn2PC = s._settings.mode3_btn2PC2]
              ELSE [s EXCEPT !.mode3_current_btn2PC = s._settings.mode3_btn2PC1]
  IN  sendProgramChange(s1, s1.mode3_current_btn2PC, s1._settings.midiChannel)

\* the gesture latches
longPressStart1(s) == [s EXCEPT !.btn1_state = 1]

longPressStart2(s) == [s EXCEPT !.btn2_state = 1]

\* longPressFromRun with a slip: only the latch of button 1 is cleared
longPressFromRun_KeepsLatch2(s) ==
  LET s1 == IF s.btn1_state = 1 /\ s.btn2_state = 1
              THEN trigger(s, TO_SETUP_MODE)
              ELSE s
  IN  [s1 EXCEPT !.btn1_state = 0]

\* longPressFromRun with a slip: the latch of button 1 alone fires the trigger
longPressFromRun_Btn1Enough(s) ==
  LET s1 == IF s.btn1_state = 1
              THEN trigger(s, TO_SETUP_MODE)
              ELSE s
  IN  [s1 EXCEPT !.btn2_state = 0, !.btn1_state = 0]

\* longPressFromRun with a slip: only the latch of button 2 is cleared
longPressFromRun_KeepsLatch1(s) ==
  LET s1 == IF s.btn1_state = 1 /\ s.btn2_state = 1
              THEN trigger(s, TO_SETUP_MODE)
              ELSE s
  IN  [s1 EXCEPT !.btn2_state = 0]

longPressFromRun(s) ==
  LET s1 == IF s.btn1_state = 1 /\ s.btn2_state = 1
              THEN trigger(s, TO_SETUP_MODE)
            ELSE s
  IN  [s1 EXCEPT !.btn2_state = 0, !.btn1_state = 0]

\* setup of the run mode
modeDown(s) ==
  IF s.run_mode = RUN_MODE1 THEN [s EXCEPT !.run_mode = RUN_MODE3]
  ELSE IF s.run_mode > RUN_MODE1 THEN [s EXCEPT !.run_mode = @ - 1]
  ELSE s

\* modeUp with a slip: no wrap at run mode 3
modeUp_NoWrap(s) == [s EXCEPT !.run_mode = @ + 1]

modeUp(s) ==
  IF s.run_mode = RUN_MODE3 THEN [s EXCEPT !.run_mode = RUN_MODE1]
  ELSE IF s.run_mode < RUN_MODE3 THEN [s EXCEPT !.run_mode = @ + 1]
  ELSE s

longPressFromSetupMode(s) ==
  LET s1 == IF s.btn1_state = 1 /\ s.btn2_state = 0
              THEN trigger(s, TO_SETUP_EXIT)
            ELSE IF s.btn1_state = 0 /\ s.btn2_state = 1
              THEN trigger(s, TO_SETUP_MIDI)
            ELSE s
  IN  [s1 EXCEPT !.btn2_state = 0, !.btn1_state = 0]

\* setup of the MIDI channel
midiChnDown(s) ==
  IF s._settings.midiChannel = 1
    THEN [s EXCEPT !._settings.midiChannel = 16]
    ELSE [s EXCEPT !._settings.midiChannel = Byte(@ - 1)]

\* midiChnUp with a slip: no wrap at channel 16
midiChnUp_NoWrap(s) == [s EXCEPT !._settings.midiChannel = Byte(@ + 1)]

midiChnUp(s) ==
  IF s._settings.midiChannel = 16
    THEN [s EXCEPT !._settings.midiChannel = 1]
    ELSE [s EXCEPT !._settings.midiChannel = Byte(@ + 1)]

\* longPressFromSetupMidi with the two single-button branches exchanged
longPressFromSetupMidi_Swapped(s) ==
  LET s1 == IF s.btn1_state = 1 /\ s.btn2_state = 0
              THEN trigger(s, TO_SETUP_MODE1)
            ELSE IF s.btn1_state = 0 /\ s.btn2_state = 1
              THEN trigger(s, TO_SETUP_EXIT)
            ELSE s
  IN  [s1 EXCEPT !.btn2_state = 0, !.btn1_state = 0]

longPressFromSetupMidi(s) ==
  LET s1 == IF s.btn1_state = 1 /\ s.btn2_state = 0
              THEN trigger(s, TO_SETUP_EXIT)
            ELSE IF s.btn1_state = 0 /\ s.btn2_state = 1
              THEN trigger(s, TO_SETUP_MODE1)
            ELSE s
  IN  [s1 EXCEPT !.btn2_state = 0, !.btn1_state = 0]

\* setup of run mode 1
longPressFromSetupMode1(s) ==
  LET s1 == IF s.btn1_state = 1 /\ s.btn2_state = 1
              THEN trigger(s, TO_SETUP_MODE1_LOW)
            ELSE IF s.btn1_state = 0 /\ s.btn2_state = 1
              THEN trigger(s, TO_SETUP_MODE2)
            ELSE IF s.btn1_state = 1 /\ s.btn2_state = 0
              THEN trigger(s, TO_SETUP_EXIT)
            ELSE s
  IN  [s1 EXCEPT !.btn2_state = 0, !.btn1_state = 0]

mode1LowLimitDecrease(s) ==
  IF s._settings.mode1_lowlimitPC = 0
    THEN [s EXCEPT !._settings.mode1_lowlimitPC = 127]
    ELSE [s EXCEPT !._settings.mode1_lowlimitPC = Byte(@ - 1)]

mode1LowLimitIncrease(s) ==
  IF s._settings.mode1_lowlimitPC = 127
    THEN [s EXCEPT !._settings.mode1_lowlimitPC = 0]
    ELSE [s EXCEPT !._settings.mode1_lowlimitPC = Byte(@ + 1)]

\* longPressFromSetupMode1Low with a slip: both latches also open the high
\* limit
longPressFromSetupMode1Low_BothAdvance(s) ==
  LET s1 == IF s.btn1_state = 1 /\ s.btn2_state = 0
              THEN trigger(s, TO_SETUP_EXIT)
            ELSE IF s.btn2_state = 1
              THEN trigger(s, TO_SETUP_MODE1_HI)
            ELSE s
  IN  [s1 EXCEPT !.btn2_state = 0, !.btn1_state = 0]

longPressFromSetupMode1Low(s) ==
  LET s1 == IF s.btn1_state = 1 /\ s.btn2_state = 0
              THEN trigger(s, TO_SETUP_EXIT)
            ELSE IF s.btn1_state = 0 /\ s.btn2_state = 1
              THEN trigger(s, TO_SETUP_MODE1_HI)
            ELSE s
  IN  [s1 EXCEPT !.btn2_state = 0, !.btn1_state = 0]

mode1HiLimitDecrease(s) ==
  IF s._settings.mode1_highlimitPC = 0
    THEN [s EXCEPT !._settings.mode1_highlimitPC = 127]
    ELSE [s EXCEPT !._settings.mode1_highlimitPC = Byte(@ - 1)]

mode1HiLimitIncrease(s) ==
  IF s._settings.mode1_highlimitPC = 127
    THEN [s EXCEPT !._settings.mode1_highlimitPC = 0]
    ELSE [s EXCEPT !._settings.mode1_highlimitPC = Byte(@ + 1)]

longPressFromSetupMode1Hi(s) ==
  LET s1 == IF s.btn1_state = 1 /\ s.btn2_state = 0
              THEN trigger(s, TO_SETUP_EXIT)
            ELSE IF s.btn1_state = 1 /\ s.btn2_state = 1
              THEN trigger(s, TO_SETUP_MODE2)
            ELSE s
  IN  [s1 EXCEPT !.btn2_state = 0, !.btn1_state = 0]

\* longPressFromSetupMode2 with a slip: the branch for both buttons is missing
longPressFromSetupMode2_Btn1Only(s) ==
  LET s1 == IF s.btn1_state = 1 /\ s.btn2_state = 0
              THEN trigger(s, TO_SETUP_EXIT)
            ELSE s
  IN  [s1 EXCEPT !.btn2_state = 0, !.btn1_state = 0]

\* setup of run mode 2
longPressFromSetupMode2(s) ==
  LET s1 == IF s.btn1_state = 1 /\ s.btn2_state = 0
              THEN trigger(s, TO_SETUP_EXIT)
            ELSE IF s.btn1_state = 1 /\ s.btn2_state = 1
              THEN trigger(s, TO_SETUP_MODE2_BTN1)
            ELSE s
  IN  [s1 EXCEPT !.btn2_state = 0, !.btn1_state = 0]

mode2Btn1Decrease(s) ==
  IF s._settings.mode2_btn1PC = 0
    THEN [s EXCEPT !._settings.mode2_btn1PC = 127]
    ELSE [s EXCEPT !._settings.mode2_btn1PC = Byte(@ - 1)]

mode2Btn1Increase(s) ==
  IF s._settings.mode2_btn1PC = 127
    THEN [s EXCEPT !._settings.mode2_btn1PC = 0]
    ELSE [s EXCEPT !._settings.mode2_btn1PC = Byte(@ + 1)]

longPressFromSetupMode2Btn1(s) ==
  LET s1 == IF s.btn1_state = 1 /\ s.btn2_state = 0
              THEN trigger(s, TO_SETUP_EXIT)
            ELSE IF s.btn1_state = 1 /\ s.btn2_state = 1
              THEN trigger(s, TO_SETUP_MODE2_BTN2)
            ELSE s
  IN  [s1 EXCEPT !.btn2_state = 0, !.btn1_state = 0]

mode2Btn2Decrease(s) ==
  IF s._settings.mode2_btn2PC = 0
    THEN [s EXCEPT !._settings.mode2_btn2PC = 127]
    ELSE [s EXCEPT !._settings.mode2_btn2PC = Byte(@ - 1)]

mode2Btn2Increase(s) ==
  IF s._settings.mode2_btn2PC = 127
    THEN [s EXCEPT !._settings.mode2_btn2PC = 0]
    ELSE [s EXCEPT !._settings.mode2_btn2PC = Byte(@ + 1)]

\* longPressFromSetupMode2Btn2 with a slip: the triggers of its two branches
\* are exchanged
longPressFromSetupMode2Btn2_Swapped(s) ==
  LET s1 == IF s.btn1_state = 1 /\ s.btn2_state = 0
              THEN trigger(s, TO_SETUP_MODE3)
            ELSE IF s.btn1_state = 1 /\ s.btn2_state = 1
              THEN trigger(s, TO_SETUP_EXIT)
            ELSE s
  IN  [s1 EXCEPT !.btn2_state = 0, !.btn1_state = 0]

longPressFromSetupMode2Btn2(s) ==
  LET s1 == IF s.btn1_state = 1 /\ s.btn2_state = 0
              THEN trigger(s, TO_SETUP_EXIT)
            ELSE IF s.btn1_state = 1 /\ s.btn2_state = 1
              THEN trigger(s, TO_SETUP_MODE3)
            ELSE s
  IN  [s1 EXCEPT !.btn2_state = 0, !.btn1_state = 0]

\* longPressFromSetupMode3 with a slip: both latches open the mode-3 edit
longPressFromSetupMode3_BothEdit(s) ==
  LET s1 == IF s.btn1_state = 1 /\ s.btn2_state = 0
              THEN trigger(s, TO_SETUP_EXIT)
            ELSE IF s.btn1_state = 0 /\ s.btn2_state = 1
              THEN trigger(s, TO_SETUP_MODE_START)
            ELSE IF s.btn1_state = 1 /\ s.btn2_state = 1
              THEN trigger(s, TO_SETUP_MODE3_BTN1_PC1)
            ELSE s
  IN  [s1 EXCEPT !.btn2_state = 0, !.btn1_state = 0]

\* longPressFromSetupMode3 with a slip: both latches also restart the loop
longPressFromSetupMode3_BothRestart(s) ==
  LET s1 == IF s.btn1_state = 1 /\ s.btn2_state = 0
              THEN trigger(s, TO_SETUP_EXIT)
            ELSE IF s.btn2_state = 1
              THEN trigger(s, TO_SETUP_MODE_START)
            ELSE s
  IN  [s1 EXCEPT !.btn2_state = 0, !.btn1_state = 0]

\* setup of run mode 3
longPressFromSetupMode3(s) ==
  LET s1 == IF s.btn1_state = 1 /\ s.btn2_state = 0
              THEN trigger(s, TO_SETUP_EXIT)
            ELSE IF s.btn1_state = 0 /\ s.btn2_state = 1
              THEN trigger(s, TO_SETUP_MODE_START)
            ELSE s
  IN  [s1 EXCEPT !.btn2_state = 0, !.btn1_state = 0]

\* EEPROM.put(CONFIG_START_ADDRESS, _settings)
saveSettings(s) == [s EXCEPT !.EEPROM = s._settings, !.puts = @ + 1]

\* longPressToRun with a slip: the latches are not cleared
longPressToRun_KeepsLatches(s) ==
  IF s.btn1_state = 1 /\ s.btn2_state = 1
    THEN trigger(saveSettings(s), TO_RUN)
  ELSE IF s.btn1_state = 1 /\ s.btn2_state = 0
    THEN trigger(s, TO_RUN)
  ELSE s

\* longPressToRun with a slip: the return without saving saves too
longPressToRun_SavesOnReturn(s) ==
  LET s1 == IF s.btn1_state = 1 /\ s.btn2_state = 1
              THEN trigger(saveSettings(s), TO_RUN)
            ELSE IF s.btn1_state = 1 /\ s.btn2_state = 0
              THEN trigger(saveSettings(s), TO_RUN)
            ELSE s
  IN  [s1 EXCEPT !.btn2_state = 0, !.btn1_state = 0]

\* leaving the setup: with both latches set the settings are saved first
longPressToRun(s) ==
  LET s1 == IF s.btn1_state = 1 /\ s.btn2_state = 1
              THEN trigger(saveSettings(s), TO_RUN)
            ELSE IF s.btn1_state = 1 /\ s.btn2_state = 0
              THEN trigger(s, TO_RUN)
            ELSE s
  IN  [s1 EXCEPT !.btn2_state = 0, !.btn1_state = 0]

nullClick(s) == s

\* the call of an attached callback; NULL is no callback
Call(f, s) ==
  CASE f = "NULL" -> s
    [] f = "cyclePcDown" -> cyclePcDown(s)
    [] f = "cyclePcUp" -> cyclePcUp(s)
    [] f = "sendBtn1PC" -> sendBtn1PC(s)
    [] f = "sendBtn2PC" -> sendBtn2PC(s)
    [] f = "sendBtn1TogglePC" -> sendBtn1TogglePC(s)
    [] f = "sendBtn2TogglePC" -> sendBtn2TogglePC(s)
    [] f = "longPressStart1" -> longPressStart1(s)
    [] f = "longPressStart2" -> longPressStart2(s)
    [] f = "longPressFromRun" -> longPressFromRun(s)
    [] f = "modeDown" -> modeDown(s)
    [] f = "modeUp" -> modeUp(s)
    [] f = "longPressFromSetupMode" -> longPressFromSetupMode(s)
    [] f = "midiChnDown" -> midiChnDown(s)
    [] f = "midiChnUp" -> midiChnUp(s)
    [] f = "longPressFromSetupMidi" -> longPressFromSetupMidi(s)
    [] f = "longPressFromSetupMode1" -> longPressFromSetupMode1(s)
    [] f = "mode1LowLimitDecrease" -> mode1LowLimitDecrease(s)
    [] f = "mode1LowLimitIncrease" -> mode1LowLimitIncrease(s)
    [] f = "longPressFromSetupMode1Low" -> longPressFromSetupMode1Low(s)
    [] f = "mode1HiLimitDecrease" -> mode1HiLimitDecrease(s)
    [] f = "mode1HiLimitIncrease" -> mode1HiLimitIncrease(s)
    [] f = "longPressFromSetupMode1Hi" -> longPressFromSetupMode1Hi(s)
    [] f = "longPressFromSetupMode2" -> longPressFromSetupMode2(s)
    [] f = "mode2Btn1Decrease" -> mode2Btn1Decrease(s)
    [] f = "mode2Btn1Increase" -> mode2Btn1Increase(s)
    [] f = "longPressFromSetupMode2Btn1" -> longPressFromSetupMode2Btn1(s)
    [] f = "mode2Btn2Decrease" -> mode2Btn2Decrease(s)
    [] f = "mode2Btn2Increase" -> mode2Btn2Increase(s)
    [] f = "longPressFromSetupMode2Btn2" -> longPressFromSetupMode2Btn2(s)
    [] f = "longPressFromSetupMode3" -> longPressFromSetupMode3(s)
    [] f = "longPressToRun" -> longPressToRun(s)
    [] f = "nullClick" -> nullClick(s)

(***************************************************************************)
(* Settings in the EEPROM, and setup().                                    *)
(***************************************************************************)
loadDefaultSettings ==
  settingsStruct(CONFIG_VERSION, 1, 0, 16, 17, 18, 19, 20, 21, 22)

\* readSettings with a slip: the defaults only for a blank version byte
readSettings_BlankOnly(stored) ==
  IF stored.sversion = 255 THEN loadDefaultSettings ELSE stored

\* EEPROM.get, then the defaults unless the version byte is CONFIG_VERSION
readSettings(stored) ==
  IF stored.sversion # CONFIG_VERSION THEN loadDefaultSettings ELSE stored

\* a OneButton as constructed: no callback attached, not in a long press
OneButton ==
  [click |-> "NULL", longPressStart |-> "NULL", longPressStop |-> "NULL",
   held |-> FALSE]

\* setup() with a slip: the run mode starts as RUN_MODE2
setup_StartsInMode2(stored) ==
  LET loaded == readSettings(stored)
  IN  [EEPROM |-> stored, _settings |-> loaded,
       mode1_currentPC |-> loaded.mode1_lowlimitPC,
       mode3_current_btn1PC |-> loaded.mode3_btn1PC1,
       mode3_current_btn2PC |-> loaded.mode3_btn2PC1,
       btn1_state |-> 0, btn2_state |-> 0,
       run_mode |-> RUN_MODE2, btn1 |-> OneButton, btn2 |-> OneButton,
       main_fsm |-> [m_current_state |-> state_init, m_initialized |-> FALSE,
                     timed_start |-> FALSE],
       midi |-> << >>, puts |-> 0, ntrans |-> 0]

\* the program state when setup() returns, for the EEPROM contents given
setup(stored) ==
  LET loaded == readSettings(stored)
  IN  [EEPROM |-> stored, _settings |-> loaded,
       mode1_currentPC |-> loaded.mode1_lowlimitPC,
       mode3_current_btn1PC |-> loaded.mode3_btn1PC1,
       mode3_current_btn2PC |-> loaded.mode3_btn2PC1,
       btn1_state |-> 0, btn2_state |-> 0,
       run_mode |-> RUN_MODE1, btn1 |-> OneButton, btn2 |-> OneButton,
       main_fsm |-> [m_current_state |-> state_init, m_initialized |-> FALSE,
                     timed_start |-> FALSE],
       midi |-> << >>, puts |-> 0, ntrans |-> 0]

(***************************************************************************)
(* loop(): btn1.tick(), btn2.tick(), main_fsm.run_machine(), for ever.  A   *)
(* tick() that delivers no event and a run_machine() that makes no         *)
(* transition change nothing, so a step of the model is one tick() that    *)
(* delivers an event or one run_machine() that changes the Fsm; the steps  *)
(* interleave as the passes of loop() allow.                               *)
(***************************************************************************)
Events == {"click", "longPressStart", "longPressStop"}

\* OneButton::tick delivering event e of button b: a click or the start of a
\* long press when the button is not in a long press, the stop when it is
CanDeliver(button, e) ==
  \/ e \in {"click", "longPressStart"} /\ ~button.held
  \/ e = "longPressStop" /\ button.held

Attached(button, e) ==
  CASE e = "click" -> button.click
    [] e = "longPressStart" -> button.longPressStart
    [] e = "longPressStop" -> button.longPressStop

tick(s, b, e) ==
  LET button == IF b = 1 THEN s.btn1 ELSE s.btn2
      nowHeld == IF e = "longPressStart" THEN TRUE
                 ELSE IF e = "longPressStop" THEN FALSE
                 ELSE button.held
      s1 == IF b = 1 THEN [s EXCEPT !.btn1.held = nowHeld]
                     ELSE [s EXCEPT !.btn2.held = nowHeld]
  IN  Call(Attached(button, e), s1)

\* Fsm::run_machine: the first run enters the initial state; then the timed
\* transition of the current state is started or, its interval elapsed, made
run_machine(s, elapsed) ==
  LET s1 == IF ~s.main_fsm.m_initialized
              THEN on_enter(s.main_fsm.m_current_state,
                            [s EXCEPT !.main_fsm.m_initialized = TRUE])
              ELSE s
  IN  IF s1.main_fsm.m_current_state # state_init THEN s1
      ELSE IF ~s1.main_fsm.timed_start
        THEN [s1 EXCEPT !.main_fsm.timed_start = TRUE]
      ELSE IF elapsed THEN make_transition(s1, state_init, state_run)
      ELSE s1

(***************************************************************************)
(* Bookkeeping beside the program state.                                   *)
(***************************************************************************)
\* the settings as last loaded or saved, and the fields edited since the
\* setup was entered from Run
SessionAfter(s, s1) ==
  [base  |-> IF s1.puts > 0 THEN s1.EEPROM ELSE session.base,
   dirty |-> IF /\ s.main_fsm.m_current_state = state_run
                /\ s1.main_fsm.m_current_state # state_run
               THEN {}
               ELSE session.dirty \cup
                    {f \in SettingsFields : s1._settings[f] # s._settings[f]}]

\* the walk of four long presses: both buttons in Run with run mode 1 (stage
\* 1), button 2 alone (2), button 1 alone (3), button 1 alone (4).  A click
\* or another latched long press ends the walk; a long-press-stop that finds
\* no latch set is the second release of a two-button press and belongs to it.
ScenarioStage(s, e) ==
  LET l1 == s.btn1_state
      l2 == s.btn2_state
      stage == scenario.stage
  IN  IF e \in {"run_machine", "longPressStart"} THEN stage
      ELSE IF e = "click" THEN 0
      ELSE IF l1 = 0 /\ l2 = 0 THEN stage
      ELSE IF /\ l1 = 1 /\ l2 = 1 /\ s.run_mode = RUN_MODE1
              /\ s.main_fsm.m_current_state = state_run THEN 1
      ELSE IF stage = 1 /\ l1 = 0 /\ l2 = 1 THEN 2
      ELSE IF stage = 2 /\ l1 = 1 /\ l2 = 0 THEN 3
      ELSE IF stage = 3 /\ l1 = 1 /\ l2 = 0 THEN 4
      ELSE 0

ScenarioAfter(s, e, s1) ==
  LET stage == ScenarioStage(s, e)
      begins == stage = 1 /\ e = "longPressStop"
                  /\ ~(s.btn1_state = 0 /\ s.btn2_state = 0)
  IN  IF stage = 0
        THEN [stage |-> 0, snap |-> s1._settings, wrote |-> FALSE,
              mode1seen |-> FALSE]
      ELSE IF begins
        THEN [stage |-> 1, snap |-> s._settings, wrote |-> s1.puts > 0,
              mode1seen |-> s1.main_fsm.m_current_state = state_setup_mode1]
      ELSE [stage |-> stage, snap |-> scenario.snap,
            wrote |-> scenario.wrote \/ s1.puts > 0,
            mode1seen |-> \/ scenario.mode1seen
                          \/ s1.main_fsm.m_current_state = state_setup_mode1]

(***************************************************************************)
(* The specification.                                                      *)
(***************************************************************************)
\* the variables of the program take the values of s1
Becomes(s1) ==
  /\ EEPROM' = s1.EEPROM
  /\ _settings' = s1._settings
  /\ mode1_currentPC' = s1.mode1_currentPC
  /\ mode3_current_btn1PC' = s1.mode3_current_btn1PC
  /\ mode3_current_btn2PC' = s1.mode3_current_btn2PC
  /\ btn1_state' = s1.btn1_state
  /\ btn2_state' = s1.btn2_state
  /\ run_mode' = s1.run_mode
  /\ btn1' = s1.btn1
  /\ btn2' = s1.btn2
  /\ main_fsm' = s1.main_fsm

Init ==
  /\ \E stored \in StoredRecords :
       /\ EEPROM = stored
       /\ _settings = setup(stored)._settings
       /\ mode1_currentPC = setup(stored).mode1_currentPC
       /\ mode3_current_btn1PC = setup(stored).mode3_current_btn1PC
       /\ mode3_current_btn2PC = setup(stored).mode3_current_btn2PC
       /\ btn1_state = setup(stored).btn1_state
       /\ btn2_state = setup(stored).btn2_state
       /\ run_mode = setup(stored).run_mode
       /\ btn1 = setup(stored).btn1
       /\ btn2 = setup(stored).btn2
       /\ main_fsm = setup(stored).main_fsm
       /\ session = [base |-> setup(stored)._settings, dirty |-> {}]
       /\ scenario = [stage |-> 0, snap |-> setup(stored)._settings,
                      wrote |-> FALSE, mode1seen |-> FALSE]
  /\ out = NoOutput
  /\ clicks = 0

\* what a step leaves in out
Output(who, e, s, s1) ==
  [who |-> who, ev |-> e, nav |-> s.main_fsm.m_current_state,
   l1 |-> s.btn1_state, l2 |-> s.btn2_state,
   midi |-> s1.midi, puts |-> s1.puts]

\* one call of tick() of button b that delivers e
ButtonTick(b, e) ==
  /\ CanDeliver(IF b = 1 THEN btn1 ELSE btn2, e)
  /\ e = "click" => clicks < MaxClicks
  /\ \E s \in {Machine} : \E s1 \in {tick(s, b, e)} :
       /\ Becomes(s1)
       /\ out' = Output(b, e, s, s1)
       /\ clicks' = IF e = "click" THEN clicks + 1 ELSE clicks
       /\ session' = SessionAfter(s, s1)
       /\ scenario' = ScenarioAfter(s, e, s1)

Btn1Tick == \E e \in Events : ButtonTick(1, e)

Btn2Tick == \E e \in Events : ButtonTick(2, e)

FsmStep(elapsed) ==
  \E s \in {Machine} : \E s1 \in {run_machine(s, elapsed)} :
    /\ s1 # s
    /\ Becomes(s1)
    /\ out' = Output(0, "run_machine", s, s1)
    /\ clicks' = clicks
    /\ session' = SessionAfter(s, s1)
    /\ scenario' = ScenarioAfter(s, "run_machine", s1)

\* run_machine() before INIT_SHOWTIME has elapsed
RunMachine == FsmStep(FALSE)

\* run_machine() in state_init once INIT_SHOWTIME has elapsed
RunMachineElapsed ==
  /\ main_fsm.m_current_state = state_init
  /\ main_fsm.m_initialized /\ main_fsm.timed_start
  /\ FsmStep(TRUE)

\* power off and on: the EEPROM keeps its contents, setup() runs again
PowerCycle ==
  /\ main_fsm.m_initialized
  /\ Becomes(setup(EEPROM))
  /\ out' = NoOutput
  /\ clicks' = clicks
  /\ session' = [base |-> setup(EEPROM)._settings, dirty |-> {}]
  /\ scenario' = [stage |-> 0, snap |-> setup(EEPROM)._settings,
                  wrote |-> FALSE, mode1seen |-> FALSE]

Next ==
  \/ Btn1Tick
  \/ Btn2Tick
  \/ RunMachine
  \/ RunMachineElapsed
  \/ PowerCycle

Spec == Init /\ [][Next]_vars

NavigationState == main_fsm.m_current_state

TypeOK ==
  /\ btn1_state \in {0, 1} /\ btn2_state \in {0, 1}
  /\ clicks \in 0..MaxClicks

(***************************************************************************)
(* Properties.                                                             *)
(***************************************************************************)
\* the last step was a long-press-stop handled in state st with latches l1, l2
StopIn(st, l1, l2) ==
  /\ out.ev = "longPressStop"
  /\ out.nav = st
  /\ out.l1 = l1 /\ out.l2 = l2

\* C1: the store is written exactly by a long-press-stop handled in SetupExit
\* with both latches set; that step makes one EEPROM.put, of the whole
\* in-memory settings, and ends in Run; every other step makes no put and
\* leaves the EEPROM as it was.
Thm_C1 ==
  [][ /\ out'.puts = IF StopIn(state_setup_exit, 1, 1)' THEN 1 ELSE 0
      /\ StopIn(state_setup_exit, 1, 1)' =>
           /\ EEPROM' = _settings
           /\ _settings' = _settings
           /\ NavigationState' = state_run
      /\ ~StopIn(state_setup_exit, 1, 1)' => EEPROM' = EEPROM ]_vars

\* C1 witness: settings edited in the setup have just been saved
Wit_C1 ==
  /\ StopIn(state_setup_exit, 1, 1)
  /\ out.puts = 1
  /\ session.dirty # {}
  /\ EEPROM = _settings
  /\ NavigationState = state_run

\* C2: a save writes, in every field not edited in the setup session it ends,
\* the value last loaded or saved: edits of a session left without saving
\* never reach the store.
CE_C2 ==
  [][ out'.puts > 0 =>
        \A f \in SettingsFields \ session.dirty :
          EEPROM'[f] = session.base[f] ]_vars

\* C3: every Program Change sent carries a program number in 0..127 and a
\* channel in 1..16.
CE_C3 ==
  \A i \in DOMAIN out.midi :
    /\ out.midi[i][1] \in 0..127
    /\ out.midi[i][2] \in 1..16

\* the callback the entry of state st attaches for event e of button b, NULL
\* if it attaches none
OwnCallback(st, b, e, s) ==
  LET fresh == on_enter(st, [s EXCEPT !.btn1 = OneButton, !.btn2 = OneButton])
  IN  Attached(IF b = 1 THEN fresh.btn1 ELSE fresh.btn2, e)

\* C4: a click or a long-press-stop is handled by the callback that the
\* entry of the current state attached for it, never by one left attached
\* by a state visited before.
CE_C4 ==
  [][ out'.ev \in {"click", "longPressStop"} =>
        Attached(IF out'.who = 1 THEN btn1 ELSE btn2, out'.ev)
          = OwnCallback(NavigationState, out'.who, out'.ev, Machine) ]_vars

\* C5: a click or long-press event changes run_mode only in SetupModeSelect.
CE_C5 ==
  [][ (out'.ev \in Events /\ run_mode' # run_mode) =>
        NavigationState = state_setup_mode ]_vars

\* C6: in SetupMode2 a long-press-stop with latch 1 set and latch 2 clear
\* moves the machine to SetupExit.
CE_C6 ==
  StopIn(state_setup_mode2, 1, 0) => NavigationState = state_setup_exit

\* C7: in SetupMode2 a long-press-stop with latch 2 set and latch 1 clear
\* moves the machine to SetupMode3.
CE_C7 ==
  StopIn(state_setup_mode2, 0, 1) => NavigationState = state_setup_mode3

\* C8: in SetupMode1High a long-press-stop of either button with both latches
\* set moves the machine to SetupMode2, and one with latch 1 alone to
\* SetupExit.
CE_C8 ==
  /\ StopIn(state_setup_mode1_hi, 1, 1) => NavigationState = state_setup_mode2
  /\ StopIn(state_setup_mode1_hi, 1, 0) => NavigationState = state_setup_exit

\* the latch combinations the transition table of the specification lists
ListedGestures ==
  { << state_run, 1, 1 >>,
    << state_setup_mode, 1, 0 >>, << state_setup_mode, 0, 1 >>,
    << state_setup_midi, 1, 0 >>, << state_setup_midi, 0, 1 >>,
    << state_setup_mode1, 1, 1 >>, << state_setup_mode1, 0, 1 >>,
    << state_setup_mode1, 1, 0 >>,
    << state_setup_mode1_low, 0, 1 >>, << state_setup_mode1_low, 1, 0 >>,
    << state_setup_mode1_hi, 1, 1 >>, << state_setup_mode1_hi, 1, 0 >>,
    << state_setup_mode2, 1, 1 >>, << state_setup_mode2, 0, 1 >>,
    << state_setup_mode2, 1, 0 >>,
    << state_setup_mode2_btn1, 1, 1 >>, << state_setup_mode2_btn1, 1, 0 >>,
    << state_setup_mode2_btn2, 1, 1 >>, << state_setup_mode2_btn2, 1, 0 >>,
    << state_setup_mode3, 1, 0 >>, << state_setup_mode3, 0, 1 >>,
    << state_setup_exit, 1, 1 >>, << state_setup_exit, 1, 0 >> }

\* C9: after every long-press-stop both latches are 0, and one that found a
\* latch combination not listed for its state leaves the navigation state
\* as it was.
Thm_C9 ==
  out.ev = "longPressStop" =>
    /\ btn1_state = 0 /\ btn2_state = 0
    /\ << out.nav, out.l1, out.l2 >> \notin ListedGestures =>
         NavigationState = out.nav

\* C9 witness: button 2 alone in Run, or both buttons in SetupModeSelect, has
\* been absorbed
Wit_C9 ==
  /\ \/ StopIn(state_run, 0, 1)
     \/ StopIn(state_setup_mode, 1, 1)
  /\ NavigationState = out.nav
  /\ btn1_state = 0 /\ btn2_state = 0

\* C10: along the walk both buttons in Run with run mode 1, button 2 alone,
\* button 1 alone, button 1 alone, the machine is in SetupModeSelect, then
\* SetupMidi, then SetupExit, then Run; SetupMode1 is not entered, nothing is
\* written to the store, and the settings end as they began.
Thm_C10 ==
  /\ scenario.stage = 1 => NavigationState = state_setup_mode
  /\ scenario.stage = 2 => NavigationState = state_setup_midi
  /\ scenario.stage = 3 => NavigationState = state_setup_exit
  /\ scenario.stage = 4 => NavigationState = state_run
  /\ scenario.stage > 0 =>
       /\ ~scenario.mode1seen
       /\ ~scenario.wrote
       /\ _settings = scenario.snap

\* C10 witness: the walk has been completed
Wit_C10 ==
  /\ scenario.stage = 4
  /\ StopIn(state_setup_exit, 1, 0)
  /\ NavigationState = state_run

\* C11: a click or long-press event handled in Run changes the navigation
\* state only when it is a long-press-stop that finds both latches set, and
\* then to SetupModeSelect; every other event handled in Run leaves it Run.
Thm_C11 ==
  (out.ev \in Events /\ out.nav = state_run) =>
    NavigationState = IF StopIn(state_run, 1, 1) THEN state_setup_mode
                      ELSE state_run

\* C11 witness: both buttons in Run, after a click in Run, have opened the
\* setup
Wit_C11 ==
  /\ StopIn(state_run, 1, 1)
  /\ NavigationState = state_setup_mode
  /\ clicks > 0

\* C12: in SetupModeSelect, SetupMidi and SetupMode3 a long-press-stop with
\* latch 1 alone moves the machine to SetupExit, one with latch 2 alone to the
\* next screen (SetupMidi, SetupMode1, SetupModeSelect), and one with both
\* latches set leaves the navigation state as it was.
Thm_C12 ==
  /\ \A st \in {state_setup_mode, state_setup_midi, state_setup_mode3} :
       /\ StopIn(st, 1, 0) => NavigationState = state_setup_exit
       /\ StopIn(st, 1, 1) => NavigationState = st
  /\ StopIn(state_setup_mode, 0, 1) => NavigationState = state_setup_midi
  /\ StopIn(state_setup_midi, 0, 1) => NavigationState = state_setup_mode1
  /\ StopIn(state_setup_mode3, 0, 1) => NavigationState = state_setup_mode

\* C12 witness: button 2 alone in SetupMode3 has restarted the setup loop
Wit_C12 ==
  /\ StopIn(state_setup_mode3, 0, 1)
  /\ NavigationState = state_setup_mode

\* C13: in SetupMode1 a long-press-stop with both latches set moves the
\* machine to SetupMode1Low, one with latch 2 alone to SetupMode2 and one with
\* latch 1 alone to SetupExit; in SetupMode1Low one with latch 2 alone moves
\* it to SetupMode1High, one with latch 1 alone to SetupExit, and one with
\* both latches set leaves the navigation state as it was.
Thm_C13 ==
  /\ StopIn(state_setup_mode1, 1, 1) => NavigationState = state_setup_mode1_low
  /\ StopIn(state_setup_mode1, 0, 1) => NavigationState = state_setup_mode2
  /\ StopIn(state_setup_mode1, 1, 0) => NavigationState = state_setup_exit
  /\ StopIn(state_setup_mode1_low, 0, 1) =>
       NavigationState = state_setup_mode1_hi
  /\ StopIn(state_setup_mode1_low, 1, 0) => NavigationState = state_setup_exit
  /\ StopIn(state_setup_mode1_low, 1, 1) =>
       NavigationState = state_setup_mode1_low

\* C13 witness: button 2 alone in SetupMode1Low has opened SetupMode1High
Wit_C13 ==
  /\ StopIn(state_setup_mode1_low, 0, 1)
  /\ NavigationState = state_setup_mode1_hi

\* C14: a long-press-stop of either button that finds both latches set moves
\* the machine from SetupMode2 to SetupMode2Btn1, from SetupMode2Btn1 to
\* SetupMode2Btn2 and from SetupMode2Btn2 to SetupMode3; one with latch 1
\* alone moves it from SetupMode2Btn1 and from SetupMode2Btn2 to SetupExit.
Thm_C14 ==
  /\ StopIn(state_setup_mode2, 1, 1) =>
       NavigationState = state_setup_mode2_btn1
  /\ StopIn(state_setup_mode2_btn1, 1, 1) =>
       NavigationState = state_setup_mode2_btn2
  /\ StopIn(state_setup_mode2_btn2, 1, 1) =>
       NavigationState = state_setup_mode3
  /\ \A st \in {state_setup_mode2_btn1, state_setup_mode2_btn2} :
       StopIn(st, 1, 0) => NavigationState = state_setup_exit

\* C14 witness: both buttons in SetupMode2Btn2, button 2 released first, have
\* opened SetupMode3
Wit_C14 ==
  /\ StopIn(state_setup_mode2_btn2, 1, 1)
  /\ out.who = 2
  /\ NavigationState = state_setup_mode3

\* C15: a step that sends a MIDI Program Change is a click handled in Run: no
\* long-press-start, long-press-stop or run_machine step sends one, and no
\* click handled in Init or in a setup state.
Thm_C15 ==
  out.midi # << >> => (out.ev = "click" /\ out.nav = state_run)

\* C15 witness: after a setup that changed the run mode, a click in Run has
\* sent one Program Change
Wit_C15 ==
  /\ out.ev = "click" /\ out.nav = state_run
  /\ Len(out.midi) = 1
  /\ run_mode = RUN_MODE3

(***************************************************************************)
(* The click handlers of Run on their own: the sketch booted into Run from *)
(* a stored record, then clicks only, as many as one likes.  The settings  *)
(* do not change in Run, and the values cycle, so the state space is       *)
(* finite without a click budget.                                          *)
(***************************************************************************)
\* the machine s as the initial state of a specification
StartsAs(s) ==
  /\ EEPROM = s.EEPROM
  /\ _settings = s._settings
  /\ mode1_currentPC = s.mode1_currentPC
  /\ mode3_current_btn1PC = s.mode3_current_btn1PC
  /\ mode3_current_btn2PC = s.mode3_current_btn2PC
  /\ btn1_state = s.btn1_state
  /\ btn2_state = s.btn2_state
  /\ run_mode = s.run_mode
  /\ btn1 = s.btn1
  /\ btn2 = s.btn2
  /\ main_fsm = s.main_fsm
  /\ out = NoOutput
  /\ clicks = 0
  /\ session = [base |-> s._settings, dirty |-> {}]
  /\ scenario = [stage |-> 0, snap |-> s._settings,
                 wrote |-> FALSE, mode1seen |-> FALSE]

\* setup(), the first run_machine() and the one after INIT_SHOWTIME: the
\* sketch in Run
Booted(stored) == run_machine(run_machine(setup(stored), FALSE), TRUE)

\* one click of button b handled in Run
RunClick(b) ==
  /\ NavigationState = state_run
  /\ CanDeliver(IF b = 1 THEN btn1 ELSE btn2, "click")
  /\ \E s \in {Machine} : \E s1 \in {tick(s, b, "click")} :
       /\ Becomes(s1)
       /\ out' = Output(b, "click", s, s1)
  /\ UNCHANGED << clicks, session, scenario >>

\* run mode 1 with every pair of limits low < high
InitMode1 ==
  \E lo \in 0..127 : \E hi \in (lo + 1)..127 :
    StartsAs(Booted(settingsStruct(CONFIG_VERSION, 1, lo, hi,
                                   17, 18, 19, 20, 21, 22)))

NextMode1 ==
  \/ RunClick(1)
  \/ RunClick(2)

SpecMode1 == InitMode1 /\ [][NextMode1]_vars

\* C16: in run mode 1 with limits low < high, a click of button 2 adds 1 to
\* the current program unless it equals high, and then makes it low; a click
\* of button 1 subtracts 1 unless it equals low, and then makes it high; the
\* limits stay as they are and the value stays inside [low, high].
Thm_C16 ==
  [][ LET low  == _settings.mode1_lowlimitPC
          high == _settings.mode1_highlimitPC
      IN  /\ mode1_currentPC \in low..high
          /\ _settings' = _settings
          /\ out'.who = 2 =>
               mode1_currentPC' = IF mode1_currentPC = high THEN low
                                  ELSE mode1_currentPC + 1
          /\ out'.who = 1 =>
               mode1_currentPC' = IF mode1_currentPC = low THEN high
                                  ELSE mode1_currentPC - 1
          /\ mode1_currentPC' \in low..high ]_vars

\* C16 witness: with limits 5 and 7 a click of button 1 has wrapped the
\* value from the low limit to the high one
Wit_C16 ==
  /\ _settings.mode1_lowlimitPC = 5 /\ _settings.mode1_highlimitPC = 7
  /\ out.ev = "click" /\ out.who = 1
  /\ mode1_currentPC = 7
  /\ out.midi = << << 7, 1 >> >>

(***************************************************************************)
(* Run mode 3 on its own: the sketch booted into Run, the run mode set to  *)
(* 3 in the setup and the setup left without saving, then clicks only.     *)
(***************************************************************************)
MaxPair == 3    \* the programs of the mode-3 pairs are drawn from 0..MaxPair

RECURSIVE Walk(_, _)
\* the machine after the events of seq, each a pair << button, event >>; the
\* bindings make each step a value before the next one is taken
Walk(s, seq) ==
  IF seq = << >> THEN s
  ELSE CHOOSE s2 \in { Walk(s1, rest) :
                         s1 \in {tick(s, seq[1][1], seq[1][2])},
                         rest \in {Tail(seq)} } : TRUE

\* from Run: both buttons into SetupModeSelect, a click of button 1 (modeDown,
\* run mode 1 to 3), button 1 alone to SetupExit, button 1 alone to Run
ToRunMode3 ==
  << << 1, "longPressStart" >>, << 2, "longPressStart" >>,
     << 1, "longPressStop" >>, << 2, "longPressStop" >>,
     << 1, "click" >>,
     << 1, "longPressStart" >>, << 1, "longPressStop" >>,
     << 1, "longPressStart" >>, << 1, "longPressStop" >> >>

InitMode3 ==
  \E p11, p12, p21, p22 \in 0..MaxPair :
    StartsAs(Walk(Booted(settingsStruct(CONFIG_VERSION, 1, 0, 16, 17, 18,
                                        p11, p12, p21, p22)),
                  ToRunMode3))

NextMode3 ==
  \/ RunClick(1)
  \/ RunClick(2)

SpecMode3 == InitMode3 /\ [][NextMode3]_vars

\* the current program of button b in the machine s, and its configured pair
Mode3Current(s, b) ==
  IF b = 1 THEN s.mode3_current_btn1PC ELSE s.mode3_current_btn2PC

Mode3Pair(s, b) ==
  IF b = 1 THEN {s._settings.mode3_btn1PC1, s._settings.mode3_btn1PC2}
           ELSE {s._settings.mode3_btn2PC1, s._settings.mode3_btn2PC2}

\* C17: in run mode 3 the current program of each button is one of the two of
\* its pair before and after every click; a click of a button leaves the
\* current program of the other button as it was, and a second click of the
\* same button right after it brings its own back to what it was before the
\* first.
Thm_C17 ==
  [][ \A b \in {1, 2} :
        /\ Mode3Current(Machine, b) \in Mode3Pair(Machine, b)
        /\ Mode3Current(Machine', b) \in Mode3Pair(Machine', b)
        /\ out'.who = b =>
             /\ Mode3Current(Machine', 3 - b) = Mode3Current(Machine, 3 - b)
             /\ Mode3Current(tick(Machine', b, "click"), b)
                  = Mode3Current(Machine, b) ]_vars

\* C17 witness: with the pairs 0/1 and 2/3, button 1 has been toggled to its
\* second program, button 2 clicked, and button 2 is at its second program
Wit_C17 ==
  /\ run_mode = RUN_MODE3 /\ NavigationState = state_run
  /\ _settings.mode3_btn1PC1 = 0 /\ _settings.mode3_btn1PC2 = 1
  /\ _settings.mode3_btn2PC1 = 2 /\ _settings.mode3_btn2PC2 = 3
  /\ out.ev = "click" /\ out.who = 2
  /\ mode3_current_btn1PC = 1 /\ mode3_current_btn2PC = 3
  /\ out.midi = << << 3, 1 >> >>

(***************************************************************************)
(* Loading the settings on their own: setup() on an EEPROM of any content, *)
(* the Init timer, and power cycles that run setup() again.                *)
(***************************************************************************)
\* version bytes: CONFIG_VERSION and others, the blank 0xFF among them
VersionBytes == {0, CONFIG_VERSION, 2, 255}

\* field bytes inside and outside the ranges of the channel and the programs
FieldBytes == {0, 1, 16, 17, 127, 128, 255}

LoadRecords ==
  { settingsStruct(v, ch, x, y, y, x, x, y, y, x) :
      v \in VersionBytes, ch \in FieldBytes, x \in FieldBytes,
      y \in FieldBytes }

InitLoad == \E stored \in LoadRecords : StartsAs(setup(stored))

NextLoad ==
  \/ RunMachine
  \/ RunMachineElapsed
  \/ PowerCycle

SpecLoad == InitLoad /\ [][NextLoad]_vars

\* C18: the settings loaded from a store whose version byte is not
\* CONFIG_VERSION are the default record (version CONFIG_VERSION, channel 1,
\* limits 0 and 16, mode-2 programs 17 and 18, mode-3 pairs 19/20 and 21/22)
\* whatever the other bytes; with the version byte CONFIG_VERSION they are
\* the stored record, field by field, in range or not.
Thm_C18 ==
  _settings = IF EEPROM.sversion = CONFIG_VERSION THEN EEPROM
              ELSE [sversion |-> CONFIG_VERSION, midiChannel |-> 1,
                    mode1_lowlimitPC |-> 0, mode1_highlimitPC |-> 16,
                    mode2_btn1PC |-> 17, mode2_btn2PC |-> 18,
                    mode3_btn1PC1 |-> 19, mode3_btn1PC2 |-> 20,
                    mode3_btn2PC1 |-> 21, mode3_btn2PC2 |-> 22]

\* C18 witness: a store with version byte 0 and other bytes that look like
\* settings has been loaded as the defaults, and the sketch runs on them
Wit_C18 ==
  /\ EEPROM = settingsStruct(0, 16, 1, 127, 127, 1, 1, 127, 127, 1)
  /\ _settings.midiChannel = 1 /\ _settings.mode1_highlimitPC = 16
  /\ main_fsm.m_initialized /\ NavigationState = state_run

(***************************************************************************)
(* The edit screens on their own: the sketch booted from a stored record,  *)
(* walked from Run into one of the five edit screens, then clicks only.    *)
(* The values wrap, so the state space is finite without a click budget.   *)
(***************************************************************************)
\* a long press of both buttons, button 1 released first, and one of button 2
\* alone
BothButtons ==
  << << 1, "longPressStart" >>, << 2, "longPressStart" >>,
     << 1, "longPressStop" >>, << 2, "longPressStop" >> >>

Button2Alone == << << 2, "longPressStart" >>, << 2, "longPressStop" >> >>

\* from Run to SetupMidi, SetupMode1Low, SetupMode1High, SetupMode2Btn1 and
\* SetupMode2Btn2
ToSetupMidi == BothButtons \o Button2Alone

ToSetupMode1Low == ToSetupMidi \o Button2Alone \o BothButtons

ToSetupMode1High == ToSetupMode1Low \o Button2Alone

ToSetupMode2Btn1 == ToSetupMode1High \o BothButtons \o BothButtons

ToSetupMode2Btn2 == ToSetupMode2Btn1 \o BothButtons

EditWalks ==
  { ToSetupMidi, ToSetupMode1Low, ToSetupMode1High, ToSetupMode2Btn1,
    ToSetupMode2Btn2 }

\* one click of button b handled in a setup state
EditClick(b) ==
  /\ NavigationState \notin {state_init, state_run}
  /\ CanDeliver(IF b = 1 THEN btn1 ELSE btn2, "click")
  /\ \E s \in {Machine} : \E s1 \in {tick(s, b, "click")} :
       /\ Becomes(s1)
       /\ out' = Output(b, "click", s, s1)
  /\ UNCHANGED << clicks, session, scenario >>

InitEdit ==
  \E stored \in StoredRecords : \E walk \in EditWalks :
    StartsAs(Walk(Booted(stored), walk))

NextEdit ==
  \/ EditClick(1)
  \/ EditClick(2)

SpecEdit == InitEdit /\ [][NextEdit]_vars

\* the five pairs of edit handlers, with the field each edits and its range
EditPairs ==
  { [down |-> "midiChnDown", up |-> "midiChnUp",
     field |-> "midiChannel", lo |-> 1, hi |-> 16],
    [down |-> "mode1LowLimitDecrease", up |-> "mode1LowLimitIncrease",
     field |-> "mode1_lowlimitPC", lo |-> 0, hi |-> 127],
    [down |-> "mode1HiLimitDecrease", up |-> "mode1HiLimitIncrease",
     field |-> "mode1_highlimitPC", lo |-> 0, hi |-> 127],
    [down |-> "mode2Btn1Decrease", up |-> "mode2Btn1Increase",
     field |-> "mode2_btn1PC", lo |-> 0, hi |-> 127],
    [down |-> "mode2Btn2Decrease", up |-> "mode2Btn2Increase",
     field |-> "mode2_btn2PC", lo |-> 0, hi |-> 127] }

\* the channel in 1..16 and every program number in 0..127
InRange(st) ==
  /\ st.midiChannel \in 1..16
  /\ \A f \in SettingsFields \ {"sversion", "midiChannel"} : st[f] \in 0..127

\* C19: a click in an edit screen runs the up or the down handler of one of
\* the five pairs; from settings in range, the up handler adds 1 to its field
\* unless it is at the top of the range, and then makes it the bottom, the
\* down handler subtracts 1 unless it is at the bottom, and then makes it the
\* top; no other field changes, the other handler of the pair undoes the
\* step, and the settings are in range again.
Thm_C19 ==
  [][ \E p \in EditPairs :
        LET h == Attached(IF out'.who = 1 THEN btn1 ELSE btn2, "click")
            v == _settings[p.field]
            w == _settings'[p.field]
        IN  /\ h \in {p.down, p.up}
            /\ InRange(_settings)
            /\ h = p.up => w = IF v = p.hi THEN p.lo ELSE v + 1
            /\ h = p.down => w = IF v = p.lo THEN p.hi ELSE v - 1
            /\ \A f \in SettingsFields \ {p.field} :
                 _settings'[f] = _settings[f]
            /\ Call(IF h = p.up THEN p.down ELSE p.up, Machine')._settings
                 = _settings
            /\ InRange(_settings') ]_vars

\* C19 witness: in SetupMidi, midiChnUp has taken the channel from 16 to 1
Wit_C19 ==
  /\ NavigationState = state_setup_midi
  /\ out.ev = "click" /\ out.who = 2
  /\ btn2.click = "midiChnUp"
  /\ _settings.midiChannel = 1
  /\ EEPROM.midiChannel = 16
  /\ \A f \in SettingsFields \ {"midiChannel"} : _settings[f] = EEPROM[f]

\* C20: run_mode is 1 when setup() returns and is always 1, 2 or 3; a click
\* handled by modeUp takes it from 1 to 2, from 2 to 3 and from 3 to 1, and
\* one handled by modeDown from 1 to 3, from 3 to 2 and from 2 to 1.
Thm_C20 ==
  /\ run_mode = 1
  /\ [][ LET h == Attached(IF out'.who = 1 THEN btn1 ELSE btn2, "click")
         IN  /\ run_mode \in {1, 2, 3}
             /\ run_mode' \in {1, 2, 3}
             /\ out'.ev = "setup" => run_mode' = 1
             /\ (out'.ev = "click" /\ h = "modeUp") =>
                  run_mode' = CASE run_mode = 1 -> 2
                                [] run_mode = 2 -> 3
                                [] run_mode = 3 -> 1
             /\ (out'.ev = "click" /\ h = "modeDown") =>
                  run_mode' = CASE run_mode = 1 -> 3
                                [] run_mode = 3 -> 2
                                [] run_mode = 2 -> 1 ]_vars

\* C20 witness: in SetupModeSelect the second click, one of button 2 (modeUp),
\* has brought the run mode to 1, which modeUp does from 3 only
Wit_C20 ==
  /\ out.ev = "click" /\ out.who = 2 /\ out.nav = state_setup_mode
  /\ btn2.click = "modeUp"
  /\ clicks = 2
  /\ run_mode = 1

\* the run-mode positions
Positions ==
  << mode1_currentPC, mode3_current_btn1PC, mode3_current_btn2PC >>

\* C21: the run-mode positions are seeded from the settings when setup()
\* runs; after that a step changes one of them only if it is a click handled
\* in Run by a mode-1 or a mode-3 handler: no transition, no entry to Run and
\* no setup edit changes them.
Thm_C21 ==
  [][ /\ out'.ev = "setup" =>
           Positions' = << _settings'.mode1_lowlimitPC,
                           _settings'.mode3_btn1PC1,
                           _settings'.mode3_btn2PC1 >>
      /\ (out'.ev # "setup" /\ Positions' # Positions) =>
           /\ out'.ev = "click" /\ out'.nav = state_run
           /\ Attached(IF out'.who = 1 THEN btn1 ELSE btn2, "click")
                \in {"cyclePcDown", "cyclePcUp",
                     "sendBtn1TogglePC", "sendBtn2TogglePC"} ]_vars

\* C21 witness: Run has been entered again from SetupExit and the mode-1
\* position is still where a click had left it, not at the low limit
Wit_C21 ==
  /\ StopIn(state_setup_exit, 1, 0)
  /\ NavigationState = state_run
  /\ mode1_currentPC # _settings.mode1_lowlimitPC
  /\ mode1_currentPC = _settings.mode1_highlimitPC

(***************************************************************************)
(* loop() pass by pass: one step is btn1.tick(), btn2.tick() and           *)
(* main_fsm.run_machine() in this order, each tick delivering one event or *)
(* none.                                                                   *)
(***************************************************************************)
PassEvents == Events \cup {"none"}

\* tick() of button b delivering e, or no event
TickOrNone(s, b, e) == IF e = "none" THEN s ELSE tick(s, b, e)

LoopPass(e1, e2, elapsed) ==
  /\ e1 # "none" => CanDeliver(btn1, e1)
  /\ e2 # "none" => CanDeliver(btn2, e2)
  /\ elapsed => /\ main_fsm.m_current_state = state_init
                /\ main_fsm.m_initialized /\ main_fsm.timed_start
  /\ clicks + (IF e1 = "click" THEN 1 ELSE 0)
            + (IF e2 = "click" THEN 1 ELSE 0) <= MaxClicks
  /\ \E s \in {Machine} : \E s1 \in {TickOrNone(s, 1, e1)} :
       \E s2 \in {TickOrNone(s1, 2, e2)} :
         \E s3 \in {run_machine(s2, elapsed)} :
           /\ Becomes(s3)
           /\ out' = [who |-> 0, ev |-> "pass",
                      nav |-> s.main_fsm.m_current_state,
                      l1 |-> s.btn1_state, l2 |-> s.btn2_state,
                      midi |-> s3.midi, puts |-> s3.puts,
                      e1 |-> e1, e2 |-> e2, ntrans |-> s3.ntrans]
  /\ clicks' = clicks + (IF e1 = "click" THEN 1 ELSE 0)
                      + (IF e2 = "click" THEN 1 ELSE 0)
  /\ UNCHANGED << session, scenario >>

NextPass ==
  \/ \E e1 \in PassEvents : \E e2 \in PassEvents : \E elapsed \in BOOLEAN :
       LoopPass(e1, e2, elapsed)
  \/ PowerCycle

SpecPass == Init /\ [][NextPass]_vars

\* C22: one pass of loop() makes at most one transition, and the navigation
\* state after a pass that made none is the one before it.
Thm_C22 ==
  out.ev = "pass" =>
    /\ out.ntrans <= 1
    /\ out.ntrans = 0 => NavigationState = out.nav

\* C22 witness: both buttons have delivered their long-press-stop in one
\* pass, in Run with both latches set, and the pass has made one transition
Wit_C22 ==
  /\ out.ev = "pass"
  /\ out.e1 = "longPressStop" /\ out.e2 = "longPressStop"
  /\ out.nav = state_run /\ out.l1 = 1 /\ out.l2 = 1
  /\ out.ntrans = 1
  /\ NavigationState = state_setup_mode

(***************************************************************************)
(* One power-on session with a fair loop(): run_machine() is called in     *)
(* every pass, and INIT_SHOWTIME elapses.                                  *)
(***************************************************************************)
NextSession ==
  \/ Btn1Tick
  \/ Btn2Tick
  \/ RunMachine
  \/ RunMachineElapsed

SpecFair ==
  /\ Init
  /\ [][NextSession]_vars
  /\ WF_vars(RunMachine)
  /\ WF_vars(RunMachineElapsed)

\* C23: the machine starts in Init; a button event handled in Init changes
\* neither the navigation state, the settings, run_mode nor the latches; a
\* step that leaves Init is the timed transition and ends in Run; and the
\* machine reaches Run.
Thm_C23 ==
  /\ NavigationState = state_init
  /\ [][ /\ (out'.ev \in Events /\ NavigationState = state_init) =>
              /\ NavigationState' = state_init
              /\ _settings' = _settings
              /\ run_mode' = run_mode
              /\ btn1_state' = btn1_state /\ btn2_state' = btn2_state
         /\ (NavigationState = state_init /\ NavigationState' # state_init) =>
              /\ out'.ev = "run_machine"
              /\ main_fsm.timed_start
              /\ NavigationState' = state_run ]_vars
  /\ <>(NavigationState = state_run)

\* C23 witness: the timed transition has brought the machine to Run while
\* button 1 is in a long press that began in Init and set no latch
Wit_C23 ==
  /\ out.ev = "run_machine" /\ out.nav = state_init
  /\ NavigationState = state_run
  /\ btn1.held /\ btn1_state = 0

(***************************************************************************)
(* Navigation on its own: the long presses of one power-on session, with   *)
(* no click.                                                               *)
(***************************************************************************)
LongPressEvents == {"longPressStart", "longPressStop"}

Btn1LongPress == \E e \in LongPressEvents : ButtonTick(1, e)

Btn2LongPress == \E e \in LongPressEvents : ButtonTick(2, e)

NextNav ==
  \/ Btn1LongPress
  \/ Btn2LongPress
  \/ RunMachine
  \/ RunMachineElapsed

SpecNav == Init /\ [][NextNav]_vars

Button1Alone == << << 1, "longPressStart" >>, << 1, "longPressStop" >> >>

\* the machine s once the buttons in a long press have been released, button
\* 1 first
Released(s) ==
  LET s1 == IF s.btn1.held THEN tick(s, 1, "longPressStop") ELSE s
  IN  IF s1.btn2.held THEN tick(s1, 2, "longPressStop") ELSE s1

\* long presses that lead from the navigation state st, no button held, to
\* Run: none in Run, button 1 alone in SetupExit, both buttons and then
\* button 1 alone twice in SetupMode2, button 1 alone twice elsewhere
WayToRun(st) ==
  CASE st = state_run -> << >>
    [] st = state_setup_exit -> Button1Alone
    [] st = state_setup_mode2 -> BothButtons \o Button1Alone \o Button1Alone
    [] OTHER -> Button1Alone \o Button1Alone

\* the machine s after the release of the buttons, the Init timer if it is
\* in Init, and the long presses of WayToRun
BackToRun(s) ==
  LET s1 == Released(s)
      s2 == IF s1.main_fsm.m_current_state = state_init
              THEN run_machine(run_machine(s1, FALSE), TRUE)
              ELSE s1
  IN  Walk(s2, WayToRun(s2.main_fsm.m_current_state))

\* C24: from every reachable state a finite sequence of long presses (after
\* the Init timer, for a machine still in Init) brings the machine to Run.
Thm_C24 == BackToRun(Machine).main_fsm.m_current_state = state_run

\* C24 witness: the machine is in SetupMode2 with no button held, and the
\* long presses lead from there to Run
Wit_C24 ==
  /\ NavigationState = state_setup_mode2
  /\ ~btn1.held /\ ~btn2.held
  /\ BackToRun(Machine).main_fsm.m_current_state = state_run

\* the click handler of button b in run mode m, as the claim names them
RunHandler(m, b) ==
  CASE m = 1 -> IF b = 1 THEN "cyclePcDown" ELSE "cyclePcUp"
    [] m = 2 -> IF b = 1 THEN "sendBtn1PC" ELSE "sendBtn2PC"
    [] m = 3 -> IF b = 1 THEN "sendBtn1TogglePC" ELSE "sendBtn2TogglePC"

\* C25: in Run the click handlers of the two buttons are those of the
\* current run_mode, and a click handled in Run has sent exactly one Program
\* Change, on the in-memory channel, with the program of the current
\* run_mode: the mode-1 position, the fixed mode-2 program of the button, or
\* the mode-3 position of the button.
Thm_C25 ==
  /\ NavigationState = state_run =>
       /\ btn1.click = RunHandler(run_mode, 1)
       /\ btn2.click = RunHandler(run_mode, 2)
  /\ (out.ev = "click" /\ out.nav = state_run) =>
       /\ Len(out.midi) = 1
       /\ out.midi[1][2] = _settings.midiChannel
       /\ out.midi[1][1] =
            Byte(CASE run_mode = 1 -> mode1_currentPC
                   [] run_mode = 2 -> IF out.who = 1
                                        THEN _settings.mode2_btn1PC
                                        ELSE _settings.mode2_btn2PC
                   [] run_mode = 3 -> IF out.who = 1
                                        THEN mode3_current_btn1PC
                                        ELSE mode3_current_btn2PC)

\* C25 witness: after run mode 2 was selected in the setup, a click of
\* button 2 in Run has sent the mode-2 program of button 2
Wit_C25 ==
  /\ out.ev = "click" /\ out.nav = state_run /\ out.who = 2
  /\ run_mode = 2
  /\ btn2.click = "sendBtn2PC"
  /\ out.midi = << << _settings.mode2_btn2PC, _settings.midiChannel >> >>

(***************************************************************************)
(* One power-on session in which the scenario followed is the two-button   *)
(* gesture: stage 1 when a long press starts with the other button not in  *)
(* one, 2 when the long press of the other button starts too, 3 after the  *)
(* first long-press-stop, 4 after the second; a long-press-start after the *)
(* first stop, or any other order, is stage 0.  Clicks and run_machine()   *)
(* leave the stage as it is.                                               *)
(***************************************************************************)
GestureStage(s, b, e) ==
  LET other == IF b = 1 THEN s.btn2 ELSE s.btn1
      stage == scenario.stage
  IN  CASE e = "click" -> stage
        [] e = "longPressStart" ->
             IF ~other.held THEN 1 ELSE IF stage = 1 THEN 2 ELSE 0
        [] e = "longPressStop" ->
             IF stage = 2 THEN 3 ELSE IF stage = 3 THEN 4 ELSE 0

\* one call of tick() of button b that delivers e
GestureTick(b, e) ==
  /\ CanDeliver(IF b = 1 THEN btn1 ELSE btn2, e)
  /\ e = "click" => clicks < MaxClicks
  /\ \E s \in {Machine} : \E s1 \in {tick(s, b, e)} :
       /\ Becomes(s1)
       /\ out' = Output(b, e, s, s1)
       /\ scenario' = [scenario EXCEPT !.stage = GestureStage(s, b, e)]
  /\ clicks' = IF e = "click" THEN clicks + 1 ELSE clicks
  /\ UNCHANGED session

NextGesture ==
  \/ \E b \in {1, 2} : \E e \in Events : GestureTick(b, e)
  \/ RunMachine
  \/ RunMachineElapsed

SpecGesture == Init /\ [][NextGesture]_vars

\* C26: in a two-button gesture (both long-press-starts before the first
\* long-press-stop, no long-press-start before the second) the second
\* long-press-stop finds both latches clear, makes no transition and writes
\* nothing to the store, so the gesture makes at most the one transition of
\* its first stop.
Thm_C26 ==
  [][ (scenario.stage = 3 /\ out'.ev = "longPressStop") =>
        /\ btn1_state = 0 /\ btn2_state = 0
        /\ NavigationState' = NavigationState
        /\ out'.puts = 0
        /\ EEPROM' = EEPROM ]_vars

\* C26 witness: the second stop of a two-button gesture has been handled in
\* Run, where the first stop, handled in SetupExit, had saved the settings
Wit_C26 ==
  /\ scenario.stage = 4
  /\ out.ev = "longPressStop" /\ out.nav = state_run
  /\ NavigationState = state_run
  /\ clicks > 0
  /\ EEPROM = _settings /\ EEPROM # session.base

\* C27: a long-press-stop that found exactly one latch set and made a
\* transition is the release of the button of that latch, and the other
\* button is not in a long press then.
CE_C27 ==
  (/\ out.ev = "longPressStop"
   /\ out.l1 + out.l2 = 1
   /\ NavigationState # out.nav) =>
    /\ out.who = IF out.l1 = 1 THEN 1 ELSE 2
    /\ ~(IF out.l1 = 1 THEN btn2 ELSE btn1).held

Mode3EditStates ==
  {state_setup_mode3_btn1PC1, state_setup_mode3_btn1PC2,
   state_setup_mode3_btn2PC1, state_setup_mode3_btn2PC2}

\* C28: the machine is never in one of the four mode-3 edit states, and the
\* four programs of the mode-3 pairs are those last loaded.
Thm_C28 ==
  /\ NavigationState \notin Mode3EditStates
  /\ \A f \in {"mode3_btn1PC1", "mode3_btn1PC2",
               "mode3_btn2PC1", "mode3_btn2PC2"} :
       _settings[f] = session.base[f]

\* C28 witness: in SetupMode3 a long-press-stop has found both latches set,
\* and the machine is still in SetupMode3 with the mode-3 pairs as loaded
Wit_C28 ==
  /\ StopIn(state_setup_mode3, 1, 1)
  /\ NavigationState = state_setup_mode3
  /\ _settings.mode3_btn1PC1 = session.base.mode3_btn1PC1
  /\ _settings.mode3_btn2PC2 = session.base.mode3_btn2PC2

(***************************************************************************)
(* C29: what survives a reboot.  The reboot leaves in out the run mode and *)
(* the EEPROM contents it found.                                           *)
(***************************************************************************)
\* power off and on: the EEPROM keeps its contents, setup() runs again
Reboot ==
  /\ main_fsm.m_initialized
  /\ Becomes(setup(EEPROM))
  /\ out' = [who |-> 0, ev |-> "reboot", nav |-> main_fsm.m_current_state,
             l1 |-> btn1_state, l2 |-> btn2_state, midi |-> << >>,
             puts |-> 0, mode |-> run_mode, stored |-> EEPROM]
  /\ clicks' = clicks
  /\ session' = [base |-> setup(EEPROM)._settings, dirty |-> {}]
  /\ scenario' = [stage |-> 0, snap |-> setup(EEPROM)._settings,
                  wrote |-> FALSE, mode1seen |-> FALSE]

NextReboot ==
  \/ Btn1Tick
  \/ Btn2Tick
  \/ RunMachine
  \/ RunMachineElapsed
  \/ Reboot

SpecReboot == Init /\ [][NextReboot]_vars

\* C29: the persisted record has the Settings fields only, so no run_mode; a
\* step that saves leaves in the EEPROM the in-memory settings, whose version
\* is CONFIG_VERSION; after a reboot run_mode is 1 whatever it was before,
\* the EEPROM is as the reboot found it, and a record with the version
\* CONFIG_VERSION, so every saved one, is in _settings field for field
Thm_C29 ==
  /\ DOMAIN EEPROM = SettingsFields
  /\ out.puts > 0 => /\ EEPROM = _settings
                     /\ EEPROM.sversion = CONFIG_VERSION
  /\ out.ev = "reboot" =>
       /\ run_mode = RUN_MODE1
       /\ EEPROM = out.stored
       /\ out.stored.sversion = CONFIG_VERSION =>
            \A f \in SettingsFields : _settings[f] = out.stored[f]

\* C29 witness: a reboot found a run mode other than 1 and a record that a
\* save had written, and now run_mode is 1 and the record is loaded
Wit_C29 ==
  /\ out.ev = "reboot"
  /\ out.mode # RUN_MODE1
  /\ out.stored \notin StoredRecords
  /\ run_mode = RUN_MODE1
  /\ _settings = out.stored

====
